---- MODULE Spec2Model ----
(***************************************************************************)
(* Model of the heidi-cli run engine (server.py, logging.py, executors.py) *)
(* as a state machine.  The run store is the directory tree under          *)
(* RUNS_DIR; every persisted write is one step of the model.  The server   *)
(* is one asyncio event loop: between two awaits a coroutine runs alone,   *)
(* which the model states with the variable cur (the task that holds the   *)
(* loop, 0 when the loop is free).                                         *)
(***************************************************************************)
EXTENDS Integers, Sequences, FiniteSets, TLC

\* ------------------------------------------------------------------ bounds
MaxRuns == 2      \* number of runs submitted in a behaviour, each with a fresh identifier
MaxEvents == 1    \* transcript events a task appends while it executes
MaxStreams == 1   \* number of stream_run requests in a behaviour
MaxFaults == 1    \* number of filesystem calls that raise OSError in a behaviour
MaxCalls == 2     \* number of RPCClient.call invocations in a behaviour
MaxBudget == 3    \* largest max_retries of a loop
MaxExecs == 2     \* number of CopilotExecutor.run calls in a behaviour
MaxSessions == 2  \* number of SSH sessions created in a behaviour
MaxTicks == 2     \* number of advances of a clock (SSH connector, Pipe)
MaxCommands == 2  \* commands recorded on one SSH session

\* ------------------------------------------------------------- identifiers
HexDigits == <<"0", "1", "2", "3", "4", "5", "6", "7", "8", "9">>

\* str(uuid.uuid4())[:8]: eight hexadecimal characters.
Hex8(i) == <<"0", "0", "0", "0", "0", "0", "0", HexDigits[i + 1]>>

RunIds == {Hex8(i) : i \in 1..MaxRuns}

TaskIds == 1..MaxRuns

\* --------------------------------------------------------------- run store
Statuses == {"running", "completed", "failed", "cancelled"}

Terminal == {"completed", "failed", "cancelled"}

MetaKeys == {"status", "ok", "error", "result", "kind", "executor"}

\* run.json before it is written: no file, no keys.
NoMeta == [file |-> "absent", kv |-> [k \in MetaKeys |-> "none"]]

\* run.json after a write that failed once the file was truncated.
CorruptMeta == [file |-> "corrupt", kv |-> [k \in MetaKeys |-> "none"]]

NoTranscript == [exists |-> FALSE, lines |-> <<>>]

NoDir == [exists |-> FALSE, meta |-> NoMeta, result |-> "NoFile", error |-> "NoFile", transcript |-> NoTranscript]

VARIABLES
    store,          \* [RunIds -> run directory]: run.json, result.txt, error.txt, transcript.jsonl
    mtimeOrder,     \* run directories ordered by st_mtime, oldest first
    updatedOrder,   \* runs ordered by the updated_at stamp of run.json, oldest first
    tasks,          \* the background tasks created so far, in creation order
    bg_tasks,       \* _bg_tasks: [RunIds -> task index], 0 when the key is absent
    cur,            \* the task running between two awaits, 0 when the event loop is free
    streams,        \* the event generators of stream_run
    resp,           \* the last response of a request handler
    faults,         \* the number of filesystem calls that have raised so far
    rpc,            \* the RPCClient and the call it is making
    ctl,            \* the Loop Controller of one loop
    rt,             \* the CopilotRuntime of one CopilotExecutor.run call
    ssh,            \* the SSH connector: its configuration, session table and clock
    pipe            \* the Pipe of client.py: its model cache and clock

\* The state of the run engine and its HTTP handlers.
engine == <<store, mtimeOrder, updatedOrder, tasks, bg_tasks, cur, streams, resp, faults>>

\* The state of the components beside the run engine.
others == <<rpc, ctl, rt, ssh, pipe>>

\* What the RPCClient, the Loop Controller and the CopilotExecutor leave alone.
notRpc == <<engine, ctl, rt, ssh, pipe>>

notCtl == <<engine, rpc, rt, ssh, pipe>>

notRt == <<engine, rpc, ctl, ssh, pipe>>

notSsh == <<engine, rpc, ctl, rt, pipe>>

notPipe == <<engine, rpc, ctl, rt, ssh>>

vars == <<store, mtimeOrder, updatedOrder, tasks, bg_tasks, cur, streams, resp, faults, rpc, ctl, rt, ssh, pipe>>

\* Move r to the most recent end of an order.
Touch(order, r) == SelectSeq(order, LAMBDA x : x # r) \o <<r>>

\* meta.get("status"): the status a reader finds in run.json.
StatusOf(d) == IF d.meta.file = "json" THEN d.meta.kv["status"] ELSE "none"

\* ------------------------------------------------------------------ texts
\* A text without a secret, and a text that holds a GitHub token (ghp_ and 36
\* alphanumerics), which the first of SECRET_PATTERNS matches.
PlainText == "text"

SecretText == "ghp_token"

\* The texts a backend may produce: model output, process output, the message of
\* an SDK exception.
Texts == {PlainText, SecretText}

\* redact_secrets: every match of a pattern is replaced; a text without a match
\* is returned as it is.
RedactSecrets(text) == IF text = SecretText THEN "***REDACTED***" ELSE text

\* ------------------------------------------------------------ write_run_meta
\* updated = dict(base); updated.update(metadata): the keys of the update take the
\* update's values, every other key keeps the value read from run.json; a missing
\* or unparsable run.json reads as the empty dict.  What is written is
\* _redact_meta(updated): every string value redacted.
MergeMeta(d, upd) == 
    LET base == IF d.meta.file = "json" THEN d.meta.kv ELSE NoMeta.kv
    IN  [file |-> "json", kv |-> [k \in MetaKeys |-> RedactSecrets(IF k \in DOMAIN upd THEN upd[k] ELSE base[k])]]

\* A write_run_meta that merges the wrong way round (updated = dict(metadata);
\* updated.update(base)): a key run.json already holds keeps its old value.
WriteRunMetaBaseWins(r, upd) == 
    /\ store' = [store EXCEPT ![r].exists = TRUE,
                              ![r].meta = [file |-> "json",
                                           kv |-> [k \in MetaKeys |->
                                                     IF store[r].meta.file = "json" /\ store[r].meta.kv[k] # "none"
                                                     THEN store[r].meta.kv[k]
                                                     ELSE IF k \in DOMAIN upd THEN upd[k] ELSE "none"]]]
    /\ mtimeOrder' = IF store[r].meta.file = "absent" THEN Touch(mtimeOrder, r) ELSE mtimeOrder
    /\ updatedOrder' = Touch(updatedOrder, r)

\* HeidiLogger.write_run_meta in the context of run r, when no call in it raises.
WriteRunMeta(r, upd) == 
    /\ store' = [store EXCEPT ![r].exists = TRUE, ![r].meta = MergeMeta(store[r], upd)]
    /\ mtimeOrder' = IF store[r].meta.file = "absent" THEN Touch(mtimeOrder, r) ELSE mtimeOrder
    /\ updatedOrder' = Touch(updatedOrder, r)

\* write_run_meta raising OSError: before run.json is opened (nothing changes) or
\* after write_text truncated it (run.json is left empty, which json.loads rejects).
WriteRunMetaRaises(r, mode) == 
    /\ store' = IF mode = "truncated" THEN [store EXCEPT ![r].meta = CorruptMeta] ELSE store
    /\ mtimeOrder' = IF mode = "truncated" /\ store[r].meta.file = "absent" THEN Touch(mtimeOrder, r) ELSE mtimeOrder
    /\ UNCHANGED updatedOrder

FaultModes == {"before", "truncated"}

\* ---------------------------------------------------------------- executors
ExecutorNames == {"copilot", "opencode", "vscode", "nosuch"}

\* pick_executor: an executor name maps to exactly one variant, an unknown name
\* raises.
PickExecutor(name) == 
    CASE name = "copilot" -> "managed"
      [] name \in {"opencode", "jules"} -> "subprocess"
      [] name = "vscode" -> "vscode"
      [] OTHER -> "unknown"

\* What the backend does during one executor call.
BackendEvents == {"ok", "unreachable", "binary_missing", "nonzero_exit", "timeout"}

\* The executor faults of the error taxonomy.
ExecutorFaults == {"unreachable", "binary_missing", "nonzero_exit", "timeout"}

Result(ok, text) == [kind |-> "result", ok |-> ok, text |-> text]

Raise(text) == [kind |-> "raise", ok |-> "none", text |-> text]

NotApplicable == [kind |-> "na", ok |-> "none", text |-> "none"]

\* CopilotExecutor.run: rt.start() is outside the try, so its RuntimeError (whose
\* message start() redacted) propagates; the text of send_and_wait is returned
\* as it came; a failure of send_and_wait (timeout included) is caught and
\* returned as ExecResult(ok=False) with the redacted message.
CopilotExecutorRun(ev, text) == 
    CASE ev = "ok" -> Result("true", text)
      [] ev = "unreachable" -> Raise(RedactSecrets(text))
      [] ev = "timeout" -> Result("false", RedactSecrets("timed out"))
      [] OTHER -> NotApplicable

\* SubprocessExecutor.run: create_subprocess_exec raises FileNotFoundError for a
\* missing binary; the exit code decides ok; the output is redacted.
SubprocessExecutorRun(ev, text) == 
    CASE ev = "ok" -> Result("true", RedactSecrets(text))
      [] ev = "binary_missing" -> Raise("FileNotFoundError")
      [] ev = "nonzero_exit" -> Result("false", RedactSecrets(text))
      [] OTHER -> NotApplicable

\* VscodeExecutor.run: FileNotFoundError is caught and returned as ok=False.
VscodeExecutorRun(ev, text) == 
    CASE ev = "ok" -> Result("true", RedactSecrets(text))
      [] ev = "binary_missing" -> Result("false", RedactSecrets("VS Code not found in PATH"))
      [] ev = "nonzero_exit" -> Result("false", RedactSecrets(text))
      [] OTHER -> NotApplicable

ExecutorRun(variant, ev, text) == 
    CASE variant = "managed" -> CopilotExecutorRun(ev, text)
      [] variant = "subprocess" -> SubprocessExecutorRun(ev, text)
      [] variant = "vscode" -> VscodeExecutorRun(ev, text)
      [] OTHER -> NotApplicable

\* run_loop as _execute_loop sees it: it returns the result text or raises.
RunLoop(ev, text) == 
    CASE ev = "ok" -> Result("none", text)
      [] ev \in ExecutorFaults -> Raise("loop failed")
      [] OTHER -> NotApplicable

\* ------------------------------------------------------------ run engine
Kinds == {"run", "loop"}

\* The requests submitted: every executor name for POST /run, one for POST /loop
\* (run_loop, not _execute_loop, reads the name).
Requests == {<<"run", ex>> : ex \in ExecutorNames} \cup {<<"loop", "copilot">>}

\* A handler's response: the HTTP code, whether the handler touched the
\* filesystem with the request's identifier, and what the body lists.
Response(op, id, code, fs, body) == [op |-> op, id |-> id, code |-> code, fs |-> fs, body |-> body]

NoResp == Response("none", <<>>, 0, FALSE, <<>>)

\* A response read before any was received, and an error object without keys.
NoKeys == [k \in {} |-> "none"]

NoResponse == [id |-> 0, error |-> "absent", err |-> NoKeys, result |-> "none"]

\* RPCClient(socket_path): _id_counter = 0, no call made yet.
NewClient == 
    [id_counter |-> 0, pc |-> "idle", size |-> 0, attempt |-> 0, connects |-> 0, failures |-> 0,
     slept |-> <<>>, cause |-> "none", conns |-> <<>>, received |-> NoResponse, outcome |-> "none",
     code |-> 0, message |-> "none", data |-> "none", result |-> "none"]

\* The Loop Controller before a loop is started.
NoLoop == [state |-> "Idle", max_retries |-> 0, remaining |-> 0, invocations |-> 0, context |-> <<>>, faulted |-> FALSE]

\* No CopilotExecutor.run call yet: no client, no session.
NoRuntime == 
    [pc |-> "idle", token |-> FALSE, client |-> "none", session |-> "none",
     raised |-> "none", ok |-> "none", output |-> "none", outcome |-> "none",
     calls |-> 0, running |-> 0]

\* None, and what an SSH connector call hands back.
None == 0

NoReturn == 
    [op |-> "none", target |-> <<>>, sid |-> None, session |-> None,
     error |-> "none", raised |-> "none", result |-> "none",
     listed |-> {}, active |-> 0, total |-> 0]

\* The SSH connector before its configuration module is imported: the
\* allowlist is empty, no session manager exists, no identifier was issued.
NoConnector == 
    [loaded |-> FALSE, allowlist |-> {}, objects |-> <<>>, table |-> {},
     now |-> 0, ticks |-> 0, ret |-> NoReturn]

\* self._models_cache = None
NoCache == [cached |-> FALSE, models |-> <<>>]

\* Pipe.__init__: no cached list, cache time 0; no call made yet.
NewPipe == 
    [models_cache |-> NoCache, models_cache_time |-> 0, now |-> 0, ticks |-> 0,
     ret |-> [models |-> <<>>, requests |-> 0, called |-> FALSE]]

Init == 
    /\ rpc = NewClient
    /\ ctl = NoLoop
    /\ rt = NoRuntime
    /\ ssh = NoConnector
    /\ pipe = NewPipe
    /\ store = [r \in RunIds |-> NoDir]
    /\ mtimeOrder = <<>>
    /\ updatedOrder = <<>>
    /\ tasks = <<>>
    /\ bg_tasks = [r \in RunIds |-> 0]
    /\ cur = 0
    /\ streams = <<>>
    /\ resp = NoResp
    /\ faults = 0

\* A handler that awaits the executor itself instead of scheduling the coroutine.
NewTaskInline(id, kind, executor) == 
    [run |-> id, kind |-> kind, executor |-> executor, pc |-> "awaiting",
     event |-> "none", ok |-> "none", output |-> "none", err |-> "none",
     calls |-> 1, events |-> 0, escaped |-> FALSE, fault |-> "none", terminal |-> 0, run_dir |-> id]

\* asyncio.create_task(_execute_run(run_id, request)): the coroutine has not run
\* yet.  The task runs in a copy of the handler's context, where init_run() has
\* set _run_dir_var to the new run's directory.  terminal counts the task's
\* completed write_run_meta calls that named a terminal status.
NewTask(id, kind, executor) == 
    [run |-> id, kind |-> kind, executor |-> executor, pc |-> "scheduled",
     event |-> "none", ok |-> "none", output |-> "none", err |-> "none",
     calls |-> 0, events |-> 0, escaped |-> FALSE, fault |-> "none", terminal |-> 0, run_dir |-> id]

\* run_id = str(uuid.uuid4())[:8] of init_run(): an identifier no run directory
\* has.  Identifiers are opaque, so the k-th directory made gets the k-th one.
FreshId(id) == 
    /\ ~store[id].exists
    /\ id = Hex8(Cardinality({r \in RunIds : store[r].exists}) + 1)

\* POST /run and POST /loop.  init_run() draws the identifier id, makes the
\* directory, writes status running; the handler writes the request's fields
\* with status running, creates the task and registers it.  Nothing in it awaits.
Submit(id, kind, executor) == 
    /\ cur = 0
    /\ FreshId(id)
    /\ WriteRunMeta(id, [status |-> "running", kind |-> kind, executor |-> executor])
    /\ tasks' = Append(tasks, NewTask(id, kind, executor))
    /\ bg_tasks' = [bg_tasks EXCEPT ![id] = Len(tasks) + 1]
    /\ resp' = Response("submit", id, 200, TRUE, <<"running">>)
    /\ UNCHANGED <<cur, streams, faults>>
    /\ UNCHANGED others

\* init_run() of the handler raising once the directory is made (the log file
\* cannot be opened): the request fails with 500 and no task is created.
SubmitFault(id) == 
    /\ cur = 0
    /\ FreshId(id)
    /\ store' = [store EXCEPT ![id].exists = TRUE]
    /\ mtimeOrder' = Touch(mtimeOrder, id)
    /\ resp' = Response("submit", id, 500, TRUE, <<>>)
    /\ UNCHANGED <<updatedOrder, tasks, bg_tasks, cur, streams>>
    /\ faults < MaxFaults
    /\ faults' = faults + 1
    /\ UNCHANGED others

\* POST /run and POST /loop when str(uuid.uuid4())[:8] yields, of the 16^8
\* values it can yield, one that a run directory already has: init_run() makes
\* the directory with exist_ok=True and nothing looks for an earlier run, so the
\* handler proceeds as for a new one.
SubmitCollides(id, kind, executor) == 
    /\ cur = 0
    /\ store[id].exists
    /\ Len(tasks) < MaxRuns
    /\ WriteRunMeta(id, [status |-> "running", kind |-> kind, executor |-> executor])
    /\ tasks' = Append(tasks, NewTask(id, kind, executor))
    /\ bg_tasks' = [bg_tasks EXCEPT ![id] = Len(tasks) + 1]
    /\ resp' = Response("submit", id, 200, TRUE, <<"running">>)
    /\ UNCHANGED <<cur, streams, faults>>
    /\ UNCHANGED others

SetTask(t, rec) == tasks' = [tasks EXCEPT ![t] = rec]

\* A run directory kept in one process-wide attribute, which the latest
\* submission has set, instead of a context variable.
GetRunDirLatest(t) == 
    tasks[Len(tasks)].run

\* HeidiLogger.get_run_dir() / cls._run_dir_var.get() in the context of task t:
\* a context variable, of which every task has its own.
GetRunDir(t) == 
    tasks[t].run_dir

Runnable(t, pc) == 
    /\ t \in 1..Len(tasks)
    /\ tasks[t].pc = pc
    /\ cur = IF pc \in {"scheduled", "awaiting"} THEN 0 ELSE t

\* _execute_run / _execute_loop, first statement: HeidiLogger.init_run(run_id)
\* rewrites status running.  It stands before the try.
TaskInitRun(t) == 
    /\ Runnable(t, "scheduled")
    /\ WriteRunMeta(tasks[t].run, [status |-> "running"])
    /\ SetTask(t, [tasks[t] EXCEPT !.pc = "pick", !.run_dir = tasks[t].run])
    /\ cur' = t
    /\ UNCHANGED <<bg_tasks, streams, resp, faults>>
    /\ UNCHANGED others

\* init_run(run_id) raising: nothing catches it, the coroutine ends, the finally
\* clause is never entered.
TaskInitRunRaises(t, mode) == 
    /\ Runnable(t, "scheduled")
    /\ WriteRunMetaRaises(tasks[t].run, mode)
    /\ SetTask(t, [tasks[t] EXCEPT !.pc = "done", !.escaped = TRUE, !.fault = "init_run"])
    /\ UNCHANGED <<bg_tasks, cur, streams, resp>>
    /\ faults < MaxFaults
    /\ faults' = faults + 1
    /\ UNCHANGED others

\* executor = pick_executor(request.executor); result = await executor.run(...)
\* up to the first await.  _execute_loop hands the name to run_loop instead.
TaskPick(t) == 
    /\ Runnable(t, "pick")
    /\ IF tasks[t].kind = "run" /\ PickExecutor(tasks[t].executor) = "unknown"
       THEN /\ SetTask(t, [tasks[t] EXCEPT !.pc = "except", !.err = "unknown executor", !.fault = "pick_executor"])
            /\ UNCHANGED cur
       ELSE /\ SetTask(t, [tasks[t] EXCEPT !.pc = "awaiting", !.calls = @ + 1])
            /\ cur' = 0
    /\ UNCHANGED <<store, mtimeOrder, updatedOrder, bg_tasks, streams, resp, faults>>
    /\ UNCHANGED others

\* What the awaited call yields for backend event ev and backend text text.
Awaited(t, ev, text) == 
    IF tasks[t].kind = "run" THEN ExecutorRun(PickExecutor(tasks[t].executor), ev, text)
    ELSE IF PickExecutor(tasks[t].executor) = "unknown" THEN Raise("unknown executor")
    ELSE RunLoop(ev, text)

\* The await returns an ExecResult (a text for a loop) or raises.
TaskResume(t, ev, text) == 
    /\ Runnable(t, "awaiting")
    /\ Awaited(t, ev, text).kind # "na"
    /\ LET out == Awaited(t, ev, text)
       IN  IF out.kind = "result"
           THEN SetTask(t, [tasks[t] EXCEPT !.pc = "write_result", !.event = ev, !.ok = out.ok, !.output = out.text])
           ELSE SetTask(t, [tasks[t] EXCEPT !.pc = "except", !.event = ev, !.err = out.text, !.fault = "executor"])
    /\ cur' = t
    /\ UNCHANGED <<store, mtimeOrder, updatedOrder, bg_tasks, streams, resp, faults>>
    /\ UNCHANGED others

\* The task is cancelled while it awaits (loop shutdown): CancelledError is a
\* BaseException, `except Exception` lets it pass and only the finally runs.
TaskCancelled(t) == 
    /\ Runnable(t, "awaiting")
    /\ SetTask(t, [tasks[t] EXCEPT !.pc = "finally", !.escaped = TRUE, !.fault = "cancelled"])
    /\ cur' = t
    /\ UNCHANGED <<store, mtimeOrder, updatedOrder, bg_tasks, streams, resp, faults>>
    /\ UNCHANGED others

\* (run_dir / "result.txt").write_text(...)
TaskWriteResult(t) == 
    /\ Runnable(t, "write_result")
    /\ store' = [store EXCEPT ![GetRunDir(t)].result = tasks[t].output]
    /\ mtimeOrder' = IF store[GetRunDir(t)].result = "NoFile" THEN Touch(mtimeOrder, GetRunDir(t)) ELSE mtimeOrder
    /\ SetTask(t, [tasks[t] EXCEPT !.pc = "write_completed"])
    /\ UNCHANGED <<updatedOrder, bg_tasks, cur, streams, resp, faults>>
    /\ UNCHANGED others

\* write_run_meta({"status": "completed", "ok": result.ok}), for a loop
\* write_run_meta({"status": "completed", "result": result}).
TaskWriteCompleted(t) == 
    /\ Runnable(t, "write_completed")
    /\ IF tasks[t].kind = "run"
       THEN WriteRunMeta(GetRunDir(t), [status |-> "completed", ok |-> tasks[t].ok])
       ELSE WriteRunMeta(GetRunDir(t), [status |-> "completed", result |-> tasks[t].output])
    /\ SetTask(t, [tasks[t] EXCEPT !.pc = IF tasks[t].kind = "run" /\ tasks[t].ok = "false" THEN "write_error" ELSE "finally",
                                   !.terminal = @ + 1])
    /\ UNCHANGED <<bg_tasks, cur, streams, resp, faults>>
    /\ UNCHANGED others

\* if not result.ok: write_run_meta({"error": result.output})
TaskWriteError(t) == 
    /\ Runnable(t, "write_error")
    /\ WriteRunMeta(GetRunDir(t), [error |-> tasks[t].output])
    /\ SetTask(t, [tasks[t] EXCEPT !.pc = "finally"])
    /\ UNCHANGED <<bg_tasks, cur, streams, resp, faults>>
    /\ UNCHANGED others

TryPcs == {"write_result", "write_completed", "write_error"}

\* A write inside the try raises OSError: control passes to `except Exception`.
TaskWriteRaises(t, mode) == 
    /\ t \in 1..Len(tasks)
    /\ tasks[t].pc \in TryPcs
    /\ cur = t
    /\ IF tasks[t].pc = "write_result"
       THEN UNCHANGED <<store, mtimeOrder, updatedOrder>>
       ELSE WriteRunMetaRaises(GetRunDir(t), mode)
    /\ SetTask(t, [tasks[t] EXCEPT !.pc = "except", !.err = "OSError", !.fault = tasks[t].pc])
    /\ UNCHANGED <<bg_tasks, cur, streams, resp>>
    /\ faults < MaxFaults
    /\ faults' = faults + 1
    /\ UNCHANGED others

\* except Exception as e: (run_dir / "error.txt").write_text(str(e))
TaskExceptErrorTxt(t) == 
    /\ Runnable(t, "except")
    /\ store' = [store EXCEPT ![GetRunDir(t)].error = tasks[t].err]
    /\ mtimeOrder' = IF store[GetRunDir(t)].error = "NoFile" THEN Touch(mtimeOrder, GetRunDir(t)) ELSE mtimeOrder
    /\ SetTask(t, [tasks[t] EXCEPT !.pc = "except_meta"])
    /\ UNCHANGED <<updatedOrder, bg_tasks, cur, streams, resp, faults>>
    /\ UNCHANGED others

\* An except clause that records the error and leaves the status as it is.
TaskExceptMetaNoStatus(t) == 
    /\ Runnable(t, "except_meta")
    /\ WriteRunMeta(GetRunDir(t), [error |-> tasks[t].err])
    /\ SetTask(t, [tasks[t] EXCEPT !.pc = "finally"])
    /\ UNCHANGED <<bg_tasks, cur, streams, resp, faults>>
    /\ UNCHANGED others

\* An except clause that, once the failure is recorded, runs the writes of the
\* try block again.
TaskExceptMetaRetries(t) == 
    /\ Runnable(t, "except_meta")
    /\ WriteRunMeta(GetRunDir(t), [status |-> "failed", error |-> tasks[t].err])
    /\ SetTask(t, [tasks[t] EXCEPT !.pc = IF tasks[t].output # "none" THEN "write_result" ELSE "finally",
                                   !.terminal = @ + 1])
    /\ UNCHANGED <<bg_tasks, cur, streams, resp, faults>>
    /\ UNCHANGED others

\* write_run_meta({"status": "failed", "error": str(e)})
TaskExceptMeta(t) == 
    /\ Runnable(t, "except_meta")
    /\ WriteRunMeta(GetRunDir(t), [status |-> "failed", error |-> tasks[t].err])
    /\ SetTask(t, [tasks[t] EXCEPT !.pc = "finally", !.terminal = @ + 1])
    /\ UNCHANGED <<bg_tasks, cur, streams, resp, faults>>
    /\ UNCHANGED others

ExceptPcs == {"except", "except_meta"}

\* A write inside the except clause raises: the exception leaves the task.
TaskExceptRaises(t, mode) == 
    /\ t \in 1..Len(tasks)
    /\ tasks[t].pc \in ExceptPcs
    /\ cur = t
    /\ IF tasks[t].pc = "except"
       THEN UNCHANGED <<store, mtimeOrder, updatedOrder>>
       ELSE WriteRunMetaRaises(GetRunDir(t), mode)
    /\ SetTask(t, [tasks[t] EXCEPT !.pc = "finally", !.escaped = TRUE])
    /\ UNCHANGED <<bg_tasks, cur, streams, resp>>
    /\ faults < MaxFaults
    /\ faults' = faults + 1
    /\ UNCHANGED others

\* finally: _bg_tasks.pop(run_id, None); the coroutine ends and its locals
\* (result, e) are gone.
TaskFinally(t) == 
    /\ Runnable(t, "finally")
    /\ bg_tasks' = [bg_tasks EXCEPT ![tasks[t].run] = 0]
    /\ SetTask(t, [tasks[t] EXCEPT !.pc = "done", !.event = "none", !.ok = "none", !.output = "none", !.err = "none"])
    /\ cur' = 0
    /\ UNCHANGED <<store, mtimeOrder, updatedOrder, streams, resp, faults>>
    /\ UNCHANGED others

\* A write_event that opens transcript.jsonl with "w": the file holds the new
\* line only.
TaskWriteEventTruncating(t, max) == 
    /\ Runnable(t, "awaiting")
    /\ tasks[t].events < max
    /\ store' = [store EXCEPT ![GetRunDir(t)].transcript =
                    [exists |-> TRUE, lines |-> <<<<t, tasks[t].events + 1>>>>]]
    /\ mtimeOrder' = IF store[GetRunDir(t)].transcript.exists THEN mtimeOrder ELSE Touch(mtimeOrder, GetRunDir(t))
    /\ SetTask(t, [tasks[t] EXCEPT !.events = @ + 1])
    /\ UNCHANGED <<updatedOrder, bg_tasks, cur, streams, resp, faults>>
    /\ UNCHANGED others

\* HeidiLogger.write_event in the task's context while the executor or the loop
\* is at work, for a task that writes at most max events: the file is opened
\* with "a" and one line, the event's JSON and a newline, is written.
TaskWriteEventUpTo(t, max) == 
    /\ Runnable(t, "awaiting")
    /\ tasks[t].events < max
    /\ store' = [store EXCEPT ![GetRunDir(t)].transcript =
                    [exists |-> TRUE, lines |-> Append(@.lines, <<t, tasks[t].events + 1>>)]]
    /\ mtimeOrder' = IF store[GetRunDir(t)].transcript.exists THEN mtimeOrder ELSE Touch(mtimeOrder, GetRunDir(t))
    /\ SetTask(t, [tasks[t] EXCEPT !.events = @ + 1])
    /\ UNCHANGED <<updatedOrder, bg_tasks, cur, streams, resp, faults>>
    /\ UNCHANGED others

TaskWriteEvent(t) == TaskWriteEventUpTo(t, MaxEvents)

\* One step of task t, the backend's texts drawn from texts.
TaskStepOn(t, texts) == 
    \/ TaskInitRun(t)
    \/ \E mode \in FaultModes : TaskInitRunRaises(t, mode)
    \/ TaskPick(t)
    \/ \E ev \in BackendEvents, text \in texts : TaskResume(t, ev, text)
    \/ TaskCancelled(t)
    \/ TaskWriteResult(t)
    \/ TaskWriteCompleted(t)
    \/ TaskWriteError(t)
    \/ \E mode \in FaultModes : TaskWriteRaises(t, mode)
    \/ TaskExceptErrorTxt(t)
    \/ TaskExceptMeta(t)
    \/ \E mode \in FaultModes : TaskExceptRaises(t, mode)
    \/ TaskFinally(t)

TaskStep(t) == TaskStepOn(t, {PlainText})

\* The run engine with its requests drawn from reqs and its texts from texts.
EngineOn(reqs, texts) == 
    \/ \E id \in RunIds, rq \in reqs : Submit(id, rq[1], rq[2])
    \/ \E id \in RunIds : SubmitFault(id)
    \/ \E t \in TaskIds : TaskStepOn(t, texts)

\* The run engine with its requests drawn from reqs.
Engine(reqs) == EngineOn(reqs, {PlainText})

Next == Engine(Requests)

Spec == Init /\ [][Next]_vars

\* --------------------------------------------------- request identifiers
MaxRunIdLen == 64

Letters == {"a", "b", "c", "d", "e", "f", "x", "A", "Z"}

Digits == {HexDigits[i] : i \in 1..Len(HexDigits)}

AllowedChars == Letters \cup Digits \cup {"-", "_", "."}

\* validate_run_id: non-empty, at most 64 characters, only letters, digits,
\* '-', '_' and '.', and no "..".
ValidRunId(id) == 
    /\ Len(id) >= 1
    /\ Len(id) <= MaxRunIdLen
    /\ \A i \in 1..Len(id) : id[i] \in AllowedChars
    /\ \A i \in 1..(Len(id) - 1) : ~(id[i] = "." /\ id[i + 1] = ".")

LongId(n) == [i \in 1..n |-> "a"]

\* The identifiers a request carries: those of the runs, two well-formed ones no
\* run has, and ill-formed ones.  The route /runs/{run_id} matches one non-empty
\* path segment, so no handler receives the empty identifier or one with '/'.
ReqIds == 
    RunIds \cup {<<"a", ".", "b">>, LongId(MaxRunIdLen)}
           \cup {<<".", ".">>, <<"a", "\\", "b">>, <<"a", "!">>, LongId(MaxRunIdLen + 1)}

\* ConfigManager.RUNS_DIR / run_id: the directory it names.  ".." names the parent
\* of RUNS_DIR, which exists once a run directory was made (mkdir(parents=True))
\* and holds no run files; no other path of ReqIds outside RunIds exists.
DirOf(id) == 
    IF id \in RunIds THEN store[id]
    ELSE [NoDir EXCEPT !.exists = id = <<".", ".">> /\ \E r \in RunIds : store[r].exists]

\* ------------------------------------------------------------- cancel_run
\* POST /runs/{run_id}/cancel -> 204 | 404, 400 for an identifier that fails
\* validate_run_id.
CancelRun(id) == 
    /\ cur = 0
    /\ IF ~ValidRunId(id)
       THEN /\ resp' = Response("cancel_run", id, 400, FALSE, <<>>)
            /\ UNCHANGED <<store, mtimeOrder, updatedOrder>>
       ELSE IF ~DirOf(id).exists
       THEN /\ resp' = Response("cancel_run", id, 404, TRUE, <<>>)
            /\ UNCHANGED <<store, mtimeOrder, updatedOrder>>
       ELSE /\ resp' = Response("cancel_run", id, 204, TRUE, <<>>)
            /\ IF StatusOf(store[id]) = "running"
               THEN WriteRunMeta(id, [status |-> "cancelled"])
               ELSE UNCHANGED <<store, mtimeOrder, updatedOrder>>
    /\ UNCHANGED <<tasks, bg_tasks, cur, streams, faults>>
    /\ UNCHANGED others

\* ------------------------------------------------------- get_run, list_runs
\* GET /runs/{run_id}.  run_dir.exists() is the first statement; json.loads of an
\* unparsable run.json raises and nothing catches it.
GetRun(id) == 
    /\ cur = 0
    /\ resp' = IF ~DirOf(id).exists THEN Response("get_run", id, 404, TRUE, <<>>)
               ELSE IF DirOf(id).meta.file = "corrupt" THEN Response("get_run", id, 500, TRUE, <<>>)
               ELSE Response("get_run", id, 200, TRUE, <<StatusOf(DirOf(id))>>)
    /\ UNCHANGED <<store, mtimeOrder, updatedOrder, tasks, bg_tasks, cur, streams, faults>>
    /\ UNCHANGED others

Min(a, b) == IF a <= b THEN a ELSE b

Max(a, b) == IF a >= b THEN a ELSE b

Reverse(seq) == [i \in 1..Len(seq) |-> seq[Len(seq) + 1 - i]]

\* seq[:limit] of Python: a negative limit drops the last -limit elements.
PySlice(seq, limit) == 
    IF limit >= 0 THEN SubSeq(seq, 1, Min(limit, Len(seq)))
    ELSE SubSeq(seq, 1, Max(Len(seq) + limit, 0))

\* sorted(runs_dir.iterdir(), key=st_mtime, reverse=True)[:limit], then the
\* entries that hold a run.json.
ListedRuns(limit) == 
    SelectSeq(PySlice(Reverse(mtimeOrder), limit), LAMBDA r : store[r].meta.file # "absent")

Limits == -1..(MaxRuns + 1)

\* GET /runs?limit=N.  json.loads of an unparsable run.json raises.
ListRuns(limit) == 
    /\ cur = 0
    /\ resp' = IF \E i \in 1..Len(ListedRuns(limit)) : store[ListedRuns(limit)[i]].meta.file = "corrupt"
               THEN Response("list_runs", <<>>, 500, TRUE, <<>>)
               ELSE Response("list_runs", <<>>, 200, TRUE, ListedRuns(limit))
    /\ UNCHANGED <<store, mtimeOrder, updatedOrder, tasks, bg_tasks, cur, streams, faults>>
    /\ UNCHANGED others

\* -------------------------------------------------------------- stream_run
NewStream(id) == [run |-> id, pc |-> "opened", last_pos |-> 0, yielded |-> <<>>]

\* GET /runs/{run_id}/stream: 404 when the run directory does not exist, else a
\* StreamingResponse over event_generator().
StreamOpen(id) == 
    /\ cur = 0
    /\ IF ~DirOf(id).exists
       THEN /\ resp' = Response("stream_run", id, 404, TRUE, <<>>)
            /\ UNCHANGED streams
       ELSE /\ Len(streams) < MaxStreams
            /\ resp' = Response("stream_run", id, 200, TRUE, <<>>)
            /\ streams' = Append(streams, NewStream(id))
    /\ UNCHANGED <<store, mtimeOrder, updatedOrder, tasks, bg_tasks, cur, faults>>
    /\ UNCHANGED others

\* event_generator, first statements: if not transcript.exists(): return;
\* last_pos = 0; then the first await asyncio.sleep(1) of `while True`.
StreamStart(s) == 
    /\ cur = 0
    /\ s \in 1..Len(streams)
    /\ streams[s].pc = "opened"
    /\ streams' = [streams EXCEPT ![s].pc = IF DirOf(streams[s].run).transcript.exists THEN "sleeping" ELSE "ended"]
    /\ UNCHANGED <<store, mtimeOrder, updatedOrder, tasks, bg_tasks, cur, resp, faults>>
    /\ UNCHANGED others

\* await asyncio.sleep(1) returns: the generator is ready to read.
StreamWake(s) == 
    /\ cur = 0
    /\ s \in 1..Len(streams)
    /\ streams[s].pc = "sleeping"
    /\ streams' = [streams EXCEPT ![s].pc = "reading"]
    /\ UNCHANGED <<store, mtimeOrder, updatedOrder, tasks, bg_tasks, cur, resp, faults>>
    /\ UNCHANGED others

\* The rest of one turn of `while True`: read the transcript, yield what lies
\* past last_pos, and sleep again.  write_event appends whole lines, so positions
\* are counted in lines.  The loop has no exit.
StreamPoll(s) == 
    /\ cur = 0
    /\ s \in 1..Len(streams)
    /\ streams[s].pc = "reading"
    /\ LET content == DirOf(streams[s].run).transcript.lines
       IN  streams' = IF Len(content) > streams[s].last_pos
                      THEN [streams EXCEPT ![s].yielded = @ \o SubSeq(content, streams[s].last_pos + 1, Len(content)),
                                           ![s].last_pos = Len(content),
                                           ![s].pc = "sleeping"]
                      ELSE [streams EXCEPT ![s].pc = "sleeping"]
    /\ UNCHANGED <<store, mtimeOrder, updatedOrder, tasks, bg_tasks, cur, resp, faults>>
    /\ UNCHANGED others

StreamIds == 1..MaxStreams

\* ------------------------------------------------------------- rpc_client
MAX_RETRIES == 2

\* BACKOFF_FACTOR = 0.5 seconds, in milliseconds.
BACKOFF_FACTOR == 500

\* 512 * 1024: the largest len(raw) that _send accepts.
MaxPayload == 512 * 1024

\* len(json.dumps(payload).encode("utf-8")) of the requests made.
PayloadSizes == {MaxPayload - 1, MaxPayload, MaxPayload + 1}

\* What one attempt meets on the socket: connect refused or timed out (OSError);
\* the peer closing before 4 bytes of length prefix; a whole response whose
\* length prefix comes in two reads; the socket closed inside the body; a whole
\* response whose body comes in several reads; a body that json.loads rejects; a
\* body that decodes to JSON that is no object; a whole response in one piece.
SocketEvents == 
    {"refused", "short_prefix", "split_prefix", "closed", "split_body", "bad_json", "not_object", "response"}

\* The bytes the one client.recv(4) returns.
FirstRead(ev) == 
    CASE ev = "short_prefix" -> 0
      [] ev = "split_prefix" -> 2
      [] OTHER -> 4

\* The events that raise OSError or ConnectionError inside the try: connect
\* failing, len(resp_len_bytes) < 4, an empty chunk inside the body loop.
ConnectionFaults == {ev \in SocketEvents : ev \in {"refused", "closed"} \/ FirstRead(ev) < 4}

\* The events in which the server sent a whole, well-formed response.
WholeResponses == {"split_prefix", "split_body", "response"}

\* The id a response carries: that of one of the requests made, or 0, the id
\* of none.
ResponseIds == 0..MaxCalls

\* The error objects of a response: with code, message and data, without data,
\* without any key.
ErrorObjects == 
    {[code |-> -32001, message |-> "E_TRANSPORT_UNAVAILABLE", data |-> "details"],
     [code |-> -32600, message |-> "Invalid Request"],
     NoKeys}

\* The decoded responses: a result with no error key, a result with error null,
\* and one response for every error object.
Responses == 
    UNION {{[id |-> i, error |-> "absent", err |-> NoKeys, result |-> "hello"],
            [id |-> i, error |-> "null", err |-> NoKeys, result |-> "hello"]}
           \cup {[id |-> i, error |-> "object", err |-> e, result |-> "none"] : e \in ErrorObjects}
           : i \in ResponseIds}

\* The connection of one attempt, `with socket.socket(...) as client`, as it is
\* left at the end of the with block: the frame length_prefix + raw sent on it
\* (the request id and the body size stand for the bytes), how many request
\* frames were sent and how many response frames were read, and closed.
Conn(requests, responses) == 
    [id |-> rpc.id_counter, size |-> rpc.size, requests |-> requests, responses |-> responses, closed |-> TRUE]

\* The request frames sent before the fault ev: none when connect failed.
Sent(ev) == IF ev = "refused" THEN 0 ELSE 1

\* err.get(key, default)
DictGet(err, key, default) == IF key \in DOMAIN err THEN err[key] ELSE default

\* A _send that rejects len(raw) >= 512 * 1024.
RpcCallRejectsLimit(size) == 
    /\ rpc.pc \in {"idle", "done"}
    /\ rpc.id_counter < MaxCalls
    /\ rpc' = IF size >= MaxPayload
              THEN [NewClient EXCEPT !.id_counter = rpc.id_counter + 1, !.size = size, !.pc = "done", !.outcome = "ValueError"]
              ELSE [NewClient EXCEPT !.id_counter = rpc.id_counter + 1, !.size = size, !.pc = "sending"]
    /\ UNCHANGED notRpc

\* call(method, params) up to the first attempt: the request takes the next id;
\* _send encodes it and raises ValueError when len(raw) > 512 * 1024.
RpcCall(size) == 
    /\ rpc.pc \in {"idle", "done"}
    /\ rpc.id_counter < MaxCalls
    /\ rpc' = IF size > MaxPayload
              THEN [NewClient EXCEPT !.id_counter = rpc.id_counter + 1, !.size = size, !.pc = "done", !.outcome = "ValueError"]
              ELSE [NewClient EXCEPT !.id_counter = rpc.id_counter + 1, !.size = size, !.pc = "sending"]
    /\ UNCHANGED notRpc

\* An except clause that sleeps BACKOFF_FACTOR after every failed attempt.
RpcAfterFaultFlat(ev, keep) == 
    IF keep
    THEN [rpc EXCEPT !.connects = @ + 1, !.failures = @ + 1, !.attempt = @ + 1, !.cause = ev,
                     !.conns = Append(@, Conn(Sent(ev), 0)),
                     !.slept = Append(@, BACKOFF_FACTOR)]
    ELSE [rpc EXCEPT !.connects = @ + 1, !.failures = @ + 1, !.cause = ev,
                     !.conns = Append(@, Conn(Sent(ev), 0)),
                     !.pc = "done", !.outcome = "ConnectionError"]

\* A _send that opens its socket before the loop and sends every attempt's
\* frame on it.
RpcAfterFaultKeepsSocket(ev, keep) == 
    LET conns == IF rpc.conns = <<>> THEN <<Conn(Sent(ev), 0)>>
                 ELSE [rpc.conns EXCEPT ![1].requests = @ + Sent(ev)]
    IN  IF keep
        THEN [rpc EXCEPT !.connects = @ + 1, !.failures = @ + 1, !.attempt = @ + 1, !.cause = ev,
                         !.conns = conns,
                         !.slept = Append(@, BACKOFF_FACTOR * (2 ^ rpc.attempt))]
        ELSE [rpc EXCEPT !.connects = @ + 1, !.failures = @ + 1, !.cause = ev,
                         !.conns = conns,
                         !.pc = "done", !.outcome = "ConnectionError"]

\* What the except clause of _send does after the connection fault ev, the retry
\* test being `keep`: sleep and go round again, or raise ConnectionError from
\* the fault.
RpcAfterFault(ev, keep) == 
    IF keep
    THEN [rpc EXCEPT !.connects = @ + 1, !.failures = @ + 1, !.attempt = @ + 1, !.cause = ev,
                     !.conns = Append(@, Conn(Sent(ev), 0)),
                     !.slept = Append(@, BACKOFF_FACTOR * (2 ^ rpc.attempt))]
    ELSE [rpc EXCEPT !.connects = @ + 1, !.failures = @ + 1, !.cause = ev,
                     !.conns = Append(@, Conn(Sent(ev), 0)),
                     !.pc = "done", !.outcome = "ConnectionError"]

\* An except clause that also catches what a malformed body raises.
RpcAfterBodyRetries(ev) == 
    IF rpc.attempt < MAX_RETRIES
    THEN [rpc EXCEPT !.connects = @ + 1, !.conns = Append(@, Conn(1, 1)), !.cause = ev, !.attempt = @ + 1,
                     !.slept = Append(@, BACKOFF_FACTOR * (2 ^ rpc.attempt))]
    ELSE [rpc EXCEPT !.connects = @ + 1, !.conns = Append(@, Conn(1, 1)), !.cause = ev, !.pc = "done",
                     !.outcome = "ConnectionError"]

\* What follows a body that is no JSON object: json.loads (or decode) raising
\* ValueError inside the try, which `except (OSError, ConnectionError)` does not
\* catch, or call() raising AttributeError at response.get on a list.
RpcAfterBody(ev) == 
    [rpc EXCEPT !.connects = @ + 1, !.conns = Append(@, Conn(1, 1)), !.cause = ev, !.pc = "done",
                !.outcome = IF ev = "bad_json" THEN "JSONDecodeError" ELSE "AttributeError"]

\* What call() does with the response _send returned.
RpcAfterResponse(response) == 
    IF response.error = "object"
    THEN [rpc EXCEPT !.connects = @ + 1, !.conns = Append(@, Conn(1, 1)),
                     !.received = response, !.pc = "done", !.outcome = "RPCError",
                     !.code = DictGet(response.err, "code", -1),
                     !.message = DictGet(response.err, "message", "Unknown error"),
                     !.data = DictGet(response.err, "data", "None")]
    ELSE [rpc EXCEPT !.connects = @ + 1, !.conns = Append(@, Conn(1, 1)),
                     !.received = response, !.pc = "done", !.outcome = "result",
                     !.result = response.result]

\* A _send whose loop is range(MAX_RETRIES): one attempt fewer.
RpcAttemptOneFewer(ev, response) == 
    /\ rpc.pc = "sending"
    /\ rpc' = CASE ev \in ConnectionFaults -> RpcAfterFault(ev, rpc.attempt < MAX_RETRIES - 1)
                [] ev \in {"bad_json", "not_object"} -> RpcAfterBody(ev)
                [] OTHER -> RpcAfterResponse(response)
    /\ UNCHANGED notRpc

\* A call() that hands an error response back to _send's retry loop.
RpcAttemptRetriesError(ev, response) == 
    /\ rpc.pc = "sending"
    /\ rpc' = CASE ev \in ConnectionFaults -> RpcAfterFault(ev, rpc.attempt < MAX_RETRIES)
                [] ev \in {"bad_json", "not_object"} -> RpcAfterBody(ev)
                [] response.error = "object" /\ rpc.attempt < MAX_RETRIES ->
                       [rpc EXCEPT !.connects = @ + 1, !.conns = Append(@, Conn(1, 1)),
                                   !.received = response, !.attempt = @ + 1]
                [] OTHER -> RpcAfterResponse(response)
    /\ UNCHANGED notRpc

\* One turn of `for attempt in range(MAX_RETRIES + 1)` and, when it returns a
\* response, the rest of call().  json.loads raising is neither OSError nor
\* ConnectionError and leaves _send.  The body loop reads on over short chunks;
\* the length prefix is read with one recv(4).
RpcAttempt(ev, response) == 
    /\ rpc.pc = "sending"
    /\ rpc' = CASE ev \in ConnectionFaults -> RpcAfterFault(ev, rpc.attempt < MAX_RETRIES)
                [] ev \in {"bad_json", "not_object"} -> RpcAfterBody(ev)
                [] OTHER -> RpcAfterResponse(response)
    /\ UNCHANGED notRpc

RpcNext == 
    \/ \E size \in PayloadSizes : RpcCall(size)
    \/ \E ev \in SocketEvents, response \in Responses : RpcAttempt(ev, response)

RpcSpec == Init /\ [][RpcNext]_vars

\* ------------------------------------------- CopilotExecutor, CopilotRuntime
\* CopilotExecutor.run, first statement: rt = CopilotRuntime(...), which builds a
\* CopilotClient with the GitHub token when one is configured
\* (use_logged_in_user False) and without it otherwise.  The runtime of the
\* call before is dropped with it; a client it left started keeps running.
CopilotRun(token) == 
    /\ rt.pc \in {"idle", "done"}
    /\ rt.calls < MaxExecs
    /\ rt' = [NoRuntime EXCEPT !.pc = "client_start", !.token = token, !.client = "created",
                               !.calls = rt.calls + 1,
                               !.running = rt.running + IF rt.client = "started" THEN 1 ELSE 0]
    /\ UNCHANGED notRt

\* CopilotRuntime.start: await self.client.start().  On failure with a token
\* configured a second client is built without it; otherwise RuntimeError with
\* the redacted message leaves start() and, rt.start() standing before the try,
\* leaves CopilotExecutor.run.
RtClientStart(ok, text) == 
    /\ rt.pc = "client_start"
    /\ rt' = IF ok THEN [rt EXCEPT !.pc = "create_session", !.client = "started"]
              ELSE IF rt.token THEN [rt EXCEPT !.pc = "client_start", !.token = FALSE, !.client = "created"]
              ELSE [rt EXCEPT !.pc = "done", !.outcome = "raise", !.raised = "start", !.output = RedactSecrets(text)]
    /\ UNCHANGED notRt

\* CopilotRuntime.start: self._session = await self.client.create_session(...);
\* on failure RuntimeError leaves start() and CopilotExecutor.run.
RtCreateSession(ok, text) == 
    /\ rt.pc = "create_session"
    /\ rt' = IF ok THEN [rt EXCEPT !.pc = "send", !.session = "open"]
              ELSE [rt EXCEPT !.pc = "done", !.outcome = "raise", !.raised = "create_session", !.output = RedactSecrets(text)]
    /\ UNCHANGED notRt

\* What send_and_wait meets: the idle event arrives, it does not arrive within
\* timeout_s, or session.send raises.
SendEvents == {"ok", "timeout", "send_failed"}

\* try: text = await rt.send_and_wait(...); return ExecResult(ok=True, output=text)
\* except Exception as e: return ExecResult(ok=False, output=redact_secrets(str(e)))
RtSend(ev, text) == 
    /\ rt.pc = "send"
    /\ rt' = CASE ev = "ok" -> [rt EXCEPT !.pc = "destroy", !.ok = "true", !.output = text]
               [] ev = "timeout" -> [rt EXCEPT !.pc = "destroy", !.ok = "false", !.output = RedactSecrets("timed out")]
               [] OTHER -> [rt EXCEPT !.pc = "destroy", !.ok = "false", !.output = RedactSecrets(text)]
    /\ UNCHANGED notRt

\* finally: await rt.stop(), first half: await self._session.destroy().  When it
\* raises, the finally of stop() still stops the client.
RtDestroy(ok) == 
    /\ rt.pc = "destroy"
    /\ rt' = IF ok THEN [rt EXCEPT !.pc = "client_stop", !.session = "destroyed"]
              ELSE [rt EXCEPT !.pc = "client_stop", !.session = "destroy_failed", !.raised = "destroy"]
    /\ UNCHANGED notRt

\* stop(), second half: await self.client.stop(); then run returns the
\* ExecResult, or the exception of stop() leaves run in its place.
RtClientStop(ok) == 
    /\ rt.pc = "client_stop"
    /\ rt' = IF ok THEN [rt EXCEPT !.pc = "done", !.client = "stopped",
                                   !.outcome = IF rt.raised = "none" THEN "result" ELSE "raise"]
              ELSE [rt EXCEPT !.pc = "done", !.client = "stop_failed", !.raised = "stop", !.outcome = "raise"]
    /\ UNCHANGED notRt

RtNext == 
    \/ \E token \in BOOLEAN : CopilotRun(token)
    \/ \E ok \in BOOLEAN, text \in Texts : RtClientStart(ok, text)
    \/ \E ok \in BOOLEAN, text \in Texts : RtCreateSession(ok, text)
    \/ \E ev \in SendEvents, text \in Texts : RtSend(ev, text)
    \/ \E ok \in BOOLEAN : RtDestroy(ok)
    \/ \E ok \in BOOLEAN : RtClientStop(ok)

RtSpec == Init /\ [][RtNext]_vars

\* ------------------------------------------------------------ SSH connector
SSH_MAX_SESSIONS == 5

SSH_SESSION_TIMEOUT == 300

\* A target is a string, here the sequence of its parts: a host, or a host, a
\* colon and a port.
Hosts == {"server", "evil"}

Ports == {"22", "2222"}

Targets == {<<h>> : h \in Hosts} \cup {<<h, ":", p>> : h \in Hosts, p \in Ports}

\* The values of HEIDI_SSH_TARGETS: unset, a host, a host with the default
\* port, a host with another port.
Allowlists == {{}, {<<"server">>}, {<<"server", ":", "22">>}, {<<"server", ":", "2222">>}}

\* ":" in target
HasColon(target) == 
    \E i \in 1..Len(target) : target[i] = ":"

\* target.split(":")[0]
SplitHost(target) == 
    IF HasColon(target)
    THEN SubSeq(target, 1, (CHOOSE i \in 1..Len(target) :
                                /\ target[i] = ":"
                                /\ \A j \in 1..(i - 1) : target[j] # ":") - 1)
    ELSE target

\* config.is_target_allowed: nothing is allowed under an empty allowlist; a
\* target without a port gets ":22"; it is allowed by an entry equal to it and
\* by an entry equal to its host.
is_target_allowed(target, allowlist) == 
    IF allowlist = {} THEN FALSE
    ELSE LET normal == IF HasColon(target) THEN target ELSE target \o <<":", "22">>
         IN  normal \in allowlist \/ SplitHost(normal) \in allowlist

\* connector.validate_target: (is_allowed, error_message)
validate_target(target, allowlist) == 
    IF is_target_allowed(target, allowlist) THEN <<TRUE, "none">> ELSE <<FALSE, "not_in_allowlist">>

\* SSHSession.is_expired
is_expired(session, now) == 
    (now - session.last_activity) > SSH_SESSION_TIMEOUT

\* SSHSessionManager._cleanup_expired: the table without its expired and its
\* inactive sessions.
CleanedUp(c) == 
    {sid \in c.table : ~(is_expired(c.objects[sid], c.now) \/ ~c.objects[sid].is_active)}

\* SSHSession(id=str(uuid.uuid4()), ...): a session nobody holds yet.
NewSession(target, now) == 
    [target |-> target, last_activity |-> now, commands_executed |-> 0, is_active |-> TRUE]

\* A create_session that refuses only above SSH_MAX_SESSIONS sessions.
ManagerCreateAboveLimit(c, target) == 
    LET table == CleanedUp(c)
        sid == Len(c.objects) + 1
    IN  IF Cardinality(table) > SSH_MAX_SESSIONS
        THEN [c EXCEPT !.table = table,
                       !.ret = [NoReturn EXCEPT !.op = "create_session", !.target = target, !.error = "max_sessions"]]
        ELSE [c EXCEPT !.table = table \cup {sid},
                       !.objects = Append(c.objects, NewSession(target, c.now)),
                       !.ret = [NoReturn EXCEPT !.op = "create_session", !.target = target, !.sid = sid, !.session = sid]]

\* SSHSessionManager.create_session on the connector c: (connector, return).
ManagerCreate(c, target) == 
    LET table == CleanedUp(c)
        sid == Len(c.objects) + 1
    IN  IF Cardinality(table) >= SSH_MAX_SESSIONS
        THEN [c EXCEPT !.table = table,
                       !.ret = [NoReturn EXCEPT !.op = "create_session", !.target = target, !.error = "max_sessions"]]
        ELSE [c EXCEPT !.table = table \cup {sid},
                       !.objects = Append(c.objects, NewSession(target, c.now)),
                       !.ret = [NoReturn EXCEPT !.op = "create_session", !.target = target, !.sid = sid, !.session = sid]]

\* connector.create_session without its validation of the target.
ConnectorCreateUnvalidated(c, target) == 
    ManagerCreate(c, target)

\* connector.create_session: the target is validated first, and a target that
\* is not allowed returns (None, error) before the session manager is asked.
ConnectorCreate(c, target) == 
    IF ~validate_target(target, c.allowlist)[1]
    THEN [c EXCEPT !.ret = [NoReturn EXCEPT !.op = "create_session", !.target = target,
                                            !.error = validate_target(target, c.allowlist)[2]]]
    ELSE ManagerCreate(c, target)

\* connector.exec_command without its validation of the target.
ExecUnvalidated(c, sid) == 
    [c EXCEPT !.ret = [NoReturn EXCEPT !.op = "exec_command", !.sid = sid, !.target = c.objects[sid].target,
                                       !.result = "not_implemented"]]

\* connector.exec_command on a session object: TargetNotAllowedError for a
\* target that is not allowed, the stub result (exit code -1) otherwise.
Exec(c, sid) == 
    IF ~validate_target(c.objects[sid].target, c.allowlist)[1]
    THEN [c EXCEPT !.ret = [NoReturn EXCEPT !.op = "exec_command", !.sid = sid, !.target = c.objects[sid].target,
                                            !.raised = "TargetNotAllowedError"]]
    ELSE ExecUnvalidated(c, sid)

\* The configuration module is imported: SSH_TARGET_ALLOWLIST is read from
\* HEIDI_SSH_TARGETS.
SshLoadConfig(allowlist) == 
    /\ ~ssh.loaded
    /\ ssh' = [ssh EXCEPT !.loaded = TRUE, !.allowlist = allowlist]
    /\ UNCHANGED notSsh

\* time.time() advances.
SshTick(d) == 
    /\ ssh.loaded
    /\ ssh.ticks < MaxTicks
    /\ ssh' = [ssh EXCEPT !.now = ssh.now + d, !.ticks = ssh.ticks + 1]
    /\ UNCHANGED notSsh

\* get_session_manager().create_session(user, target, client_ip), while fewer
\* than max sessions were ever made.
SshManagerCreateUpTo(target, max) == 
    /\ ssh.loaded
    /\ Len(ssh.objects) < max
    /\ ssh' = ManagerCreate(ssh, target)
    /\ UNCHANGED notSsh

SshManagerCreateSession(target) == 
    SshManagerCreateUpTo(target, MaxSessions)

\* connector.create_session(user, target, client_ip)
SshCreateSession(target) == 
    /\ ssh.loaded
    /\ Len(ssh.objects) < MaxSessions
    /\ ssh' = ConnectorCreate(ssh, target)
    /\ UNCHANGED notSsh

\* connector.exec_command(session, command) on a session object a caller holds.
SshExecCommand(sid) == 
    /\ ssh.loaded
    /\ sid \in 1..Len(ssh.objects)
    /\ ssh' = Exec(ssh, sid)
    /\ UNCHANGED notSsh

\* A get_session that tests presence only.
SshGetSessionUnexpiring(sid) == 
    /\ ssh.loaded
    /\ ssh' = IF sid \notin ssh.table
              THEN [ssh EXCEPT !.ret = [NoReturn EXCEPT !.op = "get_session", !.sid = sid]]
              ELSE [ssh EXCEPT !.ret = [NoReturn EXCEPT !.op = "get_session", !.sid = sid, !.session = sid,
                                                        !.target = ssh.objects[sid].target]]
    /\ UNCHANGED notSsh

\* SSHSessionManager.get_session: None for an unknown identifier; an expired
\* session is marked inactive and None is returned; otherwise the session.
SshGetSession(sid) == 
    /\ ssh.loaded
    /\ ssh' = IF sid \notin ssh.table
              THEN [ssh EXCEPT !.ret = [NoReturn EXCEPT !.op = "get_session", !.sid = sid]]
              ELSE IF is_expired(ssh.objects[sid], ssh.now)
              THEN [ssh EXCEPT !.objects[sid].is_active = FALSE,
                               !.ret = [NoReturn EXCEPT !.op = "get_session", !.sid = sid]]
              ELSE [ssh EXCEPT !.ret = [NoReturn EXCEPT !.op = "get_session", !.sid = sid, !.session = sid,
                                                        !.target = ssh.objects[sid].target]]
    /\ UNCHANGED notSsh

\* SSHSessionManager.close_session: the session, if the table holds it, is
\* marked inactive and stays in the table.
SshCloseSession(sid) == 
    /\ ssh.loaded
    /\ ssh' = IF sid \notin ssh.table
              THEN [ssh EXCEPT !.ret = [NoReturn EXCEPT !.op = "close_session", !.sid = sid]]
              ELSE [ssh EXCEPT !.objects[sid].is_active = FALSE,
                               !.ret = [NoReturn EXCEPT !.op = "close_session", !.sid = sid, !.session = sid,
                                                        !.target = ssh.objects[sid].target]]
    /\ UNCHANGED notSsh

\* SSHSessionManager.list_sessions(): the expired and the inactive sessions
\* leave the table, and the active ones of the rest are returned.
SshListSessions == 
    /\ ssh.loaded
    /\ ssh' = [ssh EXCEPT !.table = CleanedUp(ssh),
                          !.ret = [NoReturn EXCEPT !.op = "list_sessions",
                                                   !.listed = {sid \in CleanedUp(ssh) : ssh.objects[sid].is_active}]]
    /\ UNCHANGED notSsh

\* SSHSessionManager.get_stats(): after the same cleanup, the number of active
\* sessions and the size of the table.
SshGetStats == 
    /\ ssh.loaded
    /\ ssh' = [ssh EXCEPT !.table = CleanedUp(ssh),
                          !.ret = [NoReturn EXCEPT !.op = "get_stats",
                                                   !.active = Cardinality({sid \in CleanedUp(ssh) : ssh.objects[sid].is_active}),
                                                   !.total = Cardinality(CleanedUp(ssh))]]
    /\ UNCHANGED notSsh

\* SSHSessionManager.get_session on the connector c: (connector, session).
ManagerGet(c, sid) == 
    IF sid \notin c.table THEN <<c, None>>
    ELSE IF is_expired(c.objects[sid], c.now) THEN <<[c EXCEPT !.objects[sid].is_active = FALSE], None>>
    ELSE <<c, sid>>

\* routes.exec_ssh_command: 404 when get_session returns no session, 403 when
\* exec_command raises TargetNotAllowedError; otherwise the command has run,
\* session.record_command() counts it and touches the session, and the result
\* is returned.
SshExecRoute(sid) == 
    /\ ssh.loaded
    /\ sid \in 1..Len(ssh.objects) => ssh.objects[sid].commands_executed < MaxCommands
    /\ LET got == ManagerGet(ssh, sid)
           c == got[1]
       IN  ssh' = IF got[2] = None
                  THEN [c EXCEPT !.ret = [NoReturn EXCEPT !.op = "exec_route", !.sid = sid, !.error = "404"]]
                  ELSE IF Exec(c, sid).ret.raised # "none"
                  THEN [c EXCEPT !.ret = [NoReturn EXCEPT !.op = "exec_route", !.sid = sid, !.session = sid,
                                                          !.target = c.objects[sid].target, !.error = "403"]]
                  ELSE [c EXCEPT !.objects[sid].commands_executed = @ + 1,
                                 !.objects[sid].last_activity = c.now,
                                 !.ret = [NoReturn EXCEPT !.op = "exec_route", !.sid = sid, !.session = sid,
                                                          !.target = c.objects[sid].target,
                                                          !.result = Exec(c, sid).ret.result]]
    /\ UNCHANGED notSsh

\* The clock advances by a second or by the session timeout.
Delays == {1, SSH_SESSION_TIMEOUT}

SessionIds == 1..MaxSessions

SshNextOn(allowlists, targets, delays) == 
    \/ \E allowlist \in allowlists : SshLoadConfig(allowlist)
    \/ \E d \in delays : SshTick(d)
    \/ \E target \in targets : SshManagerCreateSession(target)
    \/ \E target \in targets : SshCreateSession(target)
    \/ \E sid \in SessionIds : SshExecCommand(sid)
    \/ \E sid \in SessionIds : SshGetSession(sid)
    \/ \E sid \in SessionIds : SshCloseSession(sid)

\* No allowlist or one host in it, targets on that host and on another one, and
\* a clock that advances by the session timeout.
SomeAllowlists == {{}, {<<"server">>}}

SomeTargets == {<<"server">>, <<"server", ":", "2222">>, <<"evil">>}

SshNext == SshNextOn(SomeAllowlists, SomeTargets, {SSH_SESSION_TIMEOUT})

SshSpec == Init /\ [][SshNext]_vars

\* The connector behind its exec route, with one host in the allowlist.
SshRouteNext == 
    \/ SshNextOn({{<<"server">>}}, {<<"server">>, <<"evil">>}, {SSH_SESSION_TIMEOUT})
    \/ \E sid \in SessionIds : SshExecRoute(sid)

SshRouteSpec == Init /\ [][SshRouteNext]_vars

\* The session manager alone, asked for sessions until one more than
\* SSH_MAX_SESSIONS were made.
LimitSessions == SSH_MAX_SESSIONS + 1

LimitNext == 
    \/ SshLoadConfig({<<"server">>})
    \/ SshTick(SSH_SESSION_TIMEOUT)
    \/ SshManagerCreateUpTo(<<"server">>, LimitSessions)
    \/ \E sid \in 1..LimitSessions : SshGetSession(sid)
    \/ \E sid \in 1..LimitSessions : SshCloseSession(sid)
    \/ SshListSessions
    \/ SshGetStats

LimitSpec == Init /\ [][LimitNext]_vars

\* The connector asked for sessions under every allowlist.
AllowNext == 
    \/ \E allowlist \in Allowlists : SshLoadConfig(allowlist)
    \/ \E target \in Targets : SshCreateSession(target)
    \/ \E sid \in SessionIds : SshExecCommand(sid)
    \/ \E sid \in SessionIds : SshCloseSession(sid)

AllowSpec == Init /\ [][AllowNext]_vars

\* The session manager with its listing, and the exec route used on the first
\* session.
ExpiryNext == 
    \/ SshLoadConfig({<<"server">>})
    \/ SshTick(SSH_SESSION_TIMEOUT)
    \/ SshManagerCreateSession(<<"server">>)
    \/ \E sid \in SessionIds : SshGetSession(sid)
    \/ \E sid \in SessionIds : SshCloseSession(sid)
    \/ SshExecRoute(1)
    \/ SshListSessions

ExpirySpec == Init /\ [][ExpiryNext]_vars

\* --------------------------------------------------------- Pipe (client.py)
COPILOT_MODELS == 
    <<"gpt-5", "claude-sonnet-4-20250514", "claude-3-7-sonnet-20250219", "gpt-4o",
      "gpt-4o-mini", "o3", "o4-mini">>

\* The age, in seconds, below which _fetch_models answers from its cache.
MODELS_CACHE_SECONDS == 300

\* The elements of a list answer: a dict with an id, a dict with a name only, a
\* dict with neither, and a string (which has no get).
ModelItems == 
    {[type |-> "dict", id |-> "server-model", name |-> "absent"],
     [type |-> "dict", id |-> "absent", name |-> "another-model"],
     [type |-> "dict", id |-> "absent", name |-> "absent"],
     [type |-> "str", id |-> "absent", name |-> "absent"]}

ModelLists == {<<>>} \cup {<<a>> : a \in ModelItems} \cup {<<a, b>> : a, b \in ModelItems}

\* What requests.get meets: an exception, a status other than 200, a 200 whose
\* JSON is a dict, a 200 whose JSON is a list.
Answers == 
    {[status |-> "raise", json |-> "none", items |-> <<>>],
     [status |-> "500", json |-> "none", items |-> <<>>],
     [status |-> "200", json |-> "dict", items |-> <<>>]}
    \cup {[status |-> "200", json |-> "list", items |-> l] : l \in ModelLists}

\* m.get("id", m.get("name", ""))
ModelId(m) == 
    IF m.id # "absent" THEN m.id ELSE IF m.name # "absent" THEN m.name ELSE ""

\* [m for m in model_ids if m]
RECURSIVE NonEmpty(_)
NonEmpty(ids) == 
    IF ids = <<>> THEN <<>>
    ELSE IF Head(ids) = "" THEN NonEmpty(Tail(ids))
    ELSE <<Head(ids)>> \o NonEmpty(Tail(ids))

\* Whether the try block of _fetch_models reaches its return: status 200, a
\* list, and every element has a get.
Parsed(answer) == 
    /\ answer.status = "200"
    /\ answer.json = "list"
    /\ \A i \in 1..Len(answer.items) : answer.items[i].type = "dict"

\* `self._models_cache and ...`: None and the empty list are both false.
Truthy(cache) == 
    cache.cached /\ cache.models # <<>>

\* _fetch_models without its cache: every call asks the server.
FetchUncached(p, answer) == 
    IF Parsed(answer)
    THEN LET models == NonEmpty([i \in 1..Len(answer.items) |-> ModelId(answer.items[i])])
         IN  [p EXCEPT !.models_cache = [cached |-> TRUE, models |-> models],
                       !.models_cache_time = p.now,
                       !.ret = [models |-> models, requests |-> 1, called |-> TRUE]]
    ELSE [p EXCEPT !.ret = [models |-> COPILOT_MODELS, requests |-> 1, called |-> TRUE]]

\* Pipe._fetch_models
Fetch(p, answer) == 
    IF Truthy(p.models_cache) /\ (p.now - p.models_cache_time) < MODELS_CACHE_SECONDS
    THEN [p EXCEPT !.ret = [models |-> p.models_cache.models, requests |-> 0, called |-> TRUE]]
    ELSE FetchUncached(p, answer)

PipeFetchModels(answer) == 
    /\ pipe' = Fetch(pipe, answer)
    /\ UNCHANGED notPipe

\* time.time() advances.
PipeTick(d) == 
    /\ pipe.ticks < MaxTicks
    /\ pipe' = [pipe EXCEPT !.now = pipe.now + d, !.ticks = pipe.ticks + 1]
    /\ UNCHANGED notPipe

\* The clock advances to just below the cache age, and by a second.
PipeDelays == {MODELS_CACHE_SECONDS - 1, 1}

PipeNext == 
    \/ \E answer \in Answers : PipeFetchModels(answer)
    \/ \E d \in PipeDelays : PipeTick(d)

PipeSpec == Init /\ [][PipeNext]_vars

\* --------------------------------------------------------- Loop Controller
\* The max_retries a loop is started with.
Budgets == 0..MaxBudget

\* What one executor invocation gives the controller: a result that signals
\* completion, a result that does not, or an executor-level fault.
Invocations == {"complete", "unclear", "fault"}

\* What the audit step decides.
Verdicts == {"satisfied", "incomplete"}

\* A loop is started: initial state Planning, the whole budget remaining.
LoopStart(max_retries) == 
    /\ ctl.state = "Idle"
    /\ ctl' = [NoLoop EXCEPT !.state = "Planning", !.max_retries = max_retries, !.remaining = max_retries]
    /\ UNCHANGED notCtl

\* Planning -> Executing: invoke the selected Executor with the task.
LoopPlan == 
    /\ ctl.state = "Planning"
    /\ ctl' = [ctl EXCEPT !.state = "Executing", !.invocations = @ + 1]
    /\ UNCHANGED notCtl

\* A controller that treats an executor-level fault as an incomplete result.
LoopExecutedAuditsFault(out, text) == 
    /\ ctl.state = "Executing"
    /\ ctl' = CASE out = "fault" -> [ctl EXCEPT !.state = "Auditing", !.faulted = TRUE, !.context = Append(@, text)]
                [] out = "complete" -> [ctl EXCEPT !.state = "Done", !.context = Append(@, text)]
                [] OTHER -> [ctl EXCEPT !.state = "Auditing", !.context = Append(@, text)]
    /\ UNCHANGED notCtl

\* The invocation returns.  An executor-level fault fails the loop at once; a
\* result that signals completion ends it in Done; any other result is audited.
LoopExecuted(out, text) == 
    /\ ctl.state = "Executing"
    /\ ctl' = CASE out = "fault" -> [ctl EXCEPT !.state = "Failed", !.faulted = TRUE]
                [] out = "complete" -> [ctl EXCEPT !.state = "Done", !.context = Append(@, text)]
                [] OTHER -> [ctl EXCEPT !.state = "Auditing", !.context = Append(@, text)]
    /\ UNCHANGED notCtl

\* A controller that retries while remaining >= 0: one invocation too many.
LoopAuditOneMore(verdict) == 
    /\ ctl.state = "Auditing"
    /\ ctl' = CASE verdict = "satisfied" /\ ~ctl.faulted -> [ctl EXCEPT !.state = "Done"]
                [] ctl.remaining >= 0 /\ ctl.invocations <= ctl.max_retries + 1 -> [ctl EXCEPT !.state = "Retrying"]
                [] OTHER -> [ctl EXCEPT !.state = "Failed"]
    /\ UNCHANGED notCtl

\* Auditing -> Done | Retrying | Failed: satisfied ends the loop; incomplete
\* retries when budget remains and fails when none does.
LoopAudit(verdict) == 
    /\ ctl.state = "Auditing"
    /\ ctl' = CASE verdict = "satisfied" /\ ~ctl.faulted -> [ctl EXCEPT !.state = "Done"]
                [] ctl.remaining > 0 -> [ctl EXCEPT !.state = "Retrying"]
                [] OTHER -> [ctl EXCEPT !.state = "Failed"]
    /\ UNCHANGED notCtl

\* Retrying -> Executing: decrement the remaining retries and invoke the
\* executor again with the accumulated context.
LoopRetry == 
    /\ ctl.state = "Retrying"
    /\ ctl' = [ctl EXCEPT !.state = "Executing", !.remaining = @ - 1, !.invocations = @ + 1]
    /\ UNCHANGED notCtl

LoopNext == 
    \/ \E max_retries \in Budgets : LoopStart(max_retries)
    \/ LoopPlan
    \/ \E out \in Invocations, text \in Texts : LoopExecuted(out, text)
    \/ \E verdict \in Verdicts : LoopAudit(verdict)
    \/ LoopRetry

LoopSpec == Init /\ [][LoopNext]_vars

\* ------------------------------------------------------- the read-side specs
\* The requests behind the request handlers: the claims on them do not depend
\* on the executor.
ApiRequests == {<<"run", "opencode">>}

\* POST /run with every executor name, the backends producing texts with and
\* without a secret.
RunRequests == {<<"run", ex>> : ex \in ExecutorNames}

RedactSpec == Init /\ [][EngineOn(RunRequests, Texts)]_vars

\* POST /run with a name no executor has, beside a run with a known one.
UnknownRequests == {<<"run", "nosuch">>, <<"run", "opencode">>}

UnknownSpec == Init /\ [][Engine(UnknownRequests)]_vars

\* The two submit handlers beside the run engine.
SubmitRequests == {<<"run", "opencode">>, <<"loop", "copilot">>}

SubmitSpec == Init /\ [][Engine(SubmitRequests)]_vars

\* The run engine when the identifier drawn for a submission may be one that a
\* run already has.
CollideNext == 
    \/ Engine(SubmitRequests)
    \/ \E id \in RunIds, rq \in SubmitRequests : SubmitCollides(id, rq[1], rq[2])

CollideSpec == Init /\ [][CollideNext]_vars

\* Runs of one kind executing side by side.
OwnDirSpec == Init /\ [][Engine(ApiRequests)]_vars

\* The run engine with a first task that writes one event more.
EventNext == 
    \/ Engine(ApiRequests)
    \/ TaskWriteEventUpTo(1, MaxEvents + 1)

EventSpec == Init /\ [][EventNext]_vars

\* cancel_run beside the run engine.
CancelNext == 
    \/ Engine(ApiRequests)
    \/ \E id \in RunIds : CancelRun(id)

CancelSpec == Init /\ [][CancelNext]_vars

\* get_run and list_runs beside the run engine.
ReadNext == 
    \/ Engine(ApiRequests)
    \/ \E id \in ReqIds : GetRun(id)
    \/ \E limit \in Limits : ListRuns(limit)

ReadSpec == Init /\ [][ReadNext]_vars

\* The identifiers of ReqIds that name no run.
ForeignIds == ReqIds \ RunIds

\* The three handlers that take a run identifier, called with identifiers that
\* name no run, beside the run engine.
IdNext == 
    \/ Engine(ApiRequests)
    \/ \E id \in ForeignIds : GetRun(id)
    \/ \E id \in ForeignIds : StreamOpen(id)
    \/ \E id \in ForeignIds : CancelRun(id)

IdSpec == Init /\ [][IdNext]_vars

StreamNext == 
    \/ Engine(ApiRequests)
    \/ \E t \in TaskIds : TaskWriteEvent(t)
    \/ \E id \in RunIds : StreamOpen(id)
    \/ \E s \in StreamIds : StreamStart(s)
    \/ \E s \in StreamIds : StreamWake(s)
    \/ \E s \in StreamIds : StreamPoll(s)

StreamSpec == Init /\ [][StreamNext]_vars

\* The event loop runs every generator that is ready and every task that is ready.
FairStreamSpec == 
    /\ StreamSpec
    /\ WF_vars(\E s \in StreamIds : StreamStart(s) \/ StreamWake(s) \/ StreamPoll(s))
    /\ WF_vars(\E t \in TaskIds : TaskStep(t) \/ TaskWriteEvent(t))

\* ------------------------------------------------- claims on the run engine
\* C1: once the status persisted for a run is completed, failed or cancelled, no
\* later write gives it a different value.
StatusMonotonic == 
    [][\A r \in RunIds :
        (StatusOf(store[r]) \in Terminal /\ StatusOf(store'[r]) # "none")
            => StatusOf(store'[r]) = StatusOf(store[r])]_vars

\* C2: a background task that ended after a fault at any of its steps left the
\* status of its run at failed.
FaultsEndFailed == 
    \A t \in 1..Len(tasks) :
        (tasks[t].pc = "done" /\ tasks[t].fault # "none")
            => StatusOf(store[tasks[t].run]) = "failed"

\* C3: when the executor of a single run reported an executor fault and no
\* filesystem call of the task failed, the task ends with the status failed.
ExecutorFaultFails == 
    \A t \in 1..Len(tasks) :
        (/\ tasks[t].kind = "run"
         /\ tasks[t].pc = "finally"
         /\ tasks[t].event \in ExecutorFaults
         /\ tasks[t].fault \in {"none", "executor"}
         /\ ~tasks[t].escaped)
            => StatusOf(store[tasks[t].run]) = "failed"

\* C6: when submit_run or submit_loop returns, the response is {run_id, running},
\* the run's record has status running, its task is registered under its
\* identifier, the task has not started and no executor call has been made.
SubmitNonBlocking == 
    [][Len(tasks') > Len(tasks) =>
        LET t == Len(tasks')
            r == tasks'[t].run
        IN  /\ resp' = Response("submit", r, 200, TRUE, <<"running">>)
            /\ StatusOf(store'[r]) = "running"
            /\ bg_tasks'[r] = t
            /\ tasks'[t].pc = "scheduled"
            /\ tasks'[t].calls = 0
            /\ cur' = 0
            /\ \A u \in 1..Len(tasks) : tasks'[u] = tasks[u]]_vars

\* A submission has just returned: the task is registered and has not run.
SubmitReturned == 
    \E t \in 1..Len(tasks) :
        /\ tasks[t].pc = "scheduled"
        /\ tasks[t].calls = 0
        /\ resp.op = "submit" /\ resp.code = 200 /\ resp.id = tasks[t].run
        /\ bg_tasks[tasks[t].run] = t
        /\ StatusOf(store[tasks[t].run]) = "running"

\* C7: cancel_run on a running run sets its status to cancelled; on a terminal
\* run it changes nothing and answers 204; and a second cancel_run right after
\* any cancel_run would change nothing.
CancelIdempotent == 
    [][\A id \in RunIds : CancelRun(id) =>
        /\ (StatusOf(store[id]) = "running" => StatusOf(store'[id]) = "cancelled")
        /\ (StatusOf(store[id]) \in Terminal => (resp'.code = 204 /\ UNCHANGED <<store, mtimeOrder, updatedOrder>>))
        /\ StatusOf(store'[id]) # "running"
        /\ \A k \in MetaKeys \ {"status"} : store'[id].meta.kv[k] = store[id].meta.kv[k]]_vars

\* cancel_run has answered 204 and the run is cancelled: a further cancel_run
\* finds it terminal.
CancelledByRequest == 
    /\ resp.op = "cancel_run" /\ resp.code = 204
    /\ resp.id \in RunIds
    /\ StatusOf(store[resp.id]) = "cancelled"

\* redact_secrets leaves the text as it is: nothing in it matches a pattern.
Redacted(text) == RedactSecrets(text) = text

\* C11: every text persisted for a run, in result.txt, in error.txt and in the
\* values of run.json, is a redacted text.
PersistedRedacted == 
    \A r \in RunIds :
        /\ Redacted(store[r].result)
        /\ Redacted(store[r].error)
        /\ \A k \in MetaKeys : Redacted(store[r].meta.kv[k])

\* The tasks of POST /run whose executor name maps to no variant.
UnknownTasks == {t \in 1..Len(tasks) : tasks[t].kind = "run" /\ PickExecutor(tasks[t].executor) = "unknown"}

InvalidIdRejected == 
    (resp.op \in {"get_run", "stream_run", "cancel_run"} /\ ~ValidRunId(resp.id))
        => (resp.code = 400 /\ ~resp.fs)

\* C5: get_run with a well-formed identifier answers with a record (200) or
\* NotFound (404), whatever the run store holds.
GetRunTotal == 
    (resp.op = "get_run" /\ ValidRunId(resp.id)) => resp.code \in {200, 404}

IsPrefix(a, b) == Len(a) <= Len(b) /\ SubSeq(b, 1, Len(a)) = a

\* C8: a stream on a run whose status is terminal eventually ends.
StreamsTerminate == 
    \A s \in StreamIds :
        (/\ Len(streams) >= s
         /\ StatusOf(DirOf(streams[s].run)) \in Terminal)
            ~> (Len(streams) >= s /\ streams[s].pc = "ended")

\* C9: a stream yields the lines of its run's transcript from the first one, in
\* append order, each once; a stream that has ended has yielded all of them.
StreamYieldsAll == 
    \A s \in 1..Len(streams) :
        /\ IsPrefix(streams[s].yielded, DirOf(streams[s].run).transcript.lines)
        /\ streams[s].pc = "ended" => streams[s].yielded = DirOf(streams[s].run).transcript.lines

\* The runs that have a record, most recently updated first.
RecentFirst == Reverse(updatedOrder)

\* C10: on a run store in which no filesystem call has failed, list_runs with a
\* limit >= 0 answers with at most limit runs, most recently updated first, and
\* with the limit most recently updated ones when that many exist.
ListRunsRecentFirst == 
    [][\A limit \in Limits : (limit >= 0 /\ faults = 0 /\ ListRuns(limit)) =>
        /\ resp'.code = 200
        /\ Len(resp'.body) <= limit
        /\ resp'.body = SubSeq(RecentFirst, 1, Min(limit, Len(RecentFirst)))]_vars

\* ------------------------------------------------- claims on the rpc client
\* C13: a call whose encoded body is longer than 512 * 1024 bytes has ended with
\* the payload error and no connection attempt; a body of 512 * 1024 bytes or
\* fewer never ends with the payload error.
OversizeRejected == 
    /\ (rpc.pc # "idle" /\ rpc.size > MaxPayload) =>
           (rpc.pc = "done" /\ rpc.outcome = "ValueError" /\ rpc.connects = 0 /\ rpc.slept = <<>>)
    /\ (rpc.pc # "idle" /\ rpc.size <= MaxPayload) => rpc.outcome # "ValueError"

\* A body of exactly 512 * 1024 bytes was sent and answered.
LimitSizeAnswered == rpc.size = MaxPayload /\ rpc.outcome = "result"

\* C14: a call all of whose attempts met a connection fault ends with
\* ConnectionError after exactly MAX_RETRIES + 1 connection attempts, not more
\* and not fewer.
UnreachableFailsAfterRetries == 
    /\ rpc.connects <= MAX_RETRIES + 1
    /\ rpc.outcome = "ConnectionError" =>
           (rpc.pc = "done" /\ rpc.connects = MAX_RETRIES + 1 /\ rpc.failures = MAX_RETRIES + 1)
    /\ (rpc.pc = "sending") => (rpc.failures = rpc.connects /\ rpc.connects <= MAX_RETRIES)
    /\ (rpc.pc = "done" /\ rpc.failures = rpc.connects /\ rpc.connects > 0) =>
           (rpc.outcome = "ConnectionError" /\ rpc.outcome # "RPCError")

\* Every attempt of a call failed and the call has ended.
GaveUp == rpc.pc = "done" /\ rpc.outcome = "ConnectionError" /\ rpc.failures = MAX_RETRIES + 1

\* C15: once a response with an error object is received the call has ended with
\* RPCError carrying that object's code, message and data, and the attempt that
\* received it was the last; with no connection fault before, it was the only one.
ErrorResponseRaises == 
    /\ rpc.received.error = "object" =>
           /\ rpc.pc = "done"
           /\ rpc.outcome = "RPCError"
           /\ rpc.connects = rpc.failures + 1
           /\ \A k \in DOMAIN rpc.received.err : rpc[k] = rpc.received.err[k]
    /\ rpc.outcome = "RPCError" => rpc.received.error = "object"

\* An error response was received on the first attempt.
ErrorOnFirstAttempt == 
    /\ rpc.outcome = "RPCError"
    /\ rpc.connects = 1
    /\ rpc.code = -32001 /\ rpc.message = "E_TRANSPORT_UNAVAILABLE" /\ rpc.data = "details"

\* The sum of a sequence of delays.
RECURSIVE SumSeq(_)
SumSeq(s) == 
    IF s = <<>> THEN 0 ELSE s[1] + SumSeq(Tail(s))

\* C31: the delay slept after failed attempt k (k = 0, 1, ...) is
\* BACKOFF_FACTOR * 2^k, each delay is twice the one before, a delay follows
\* every failed attempt but the final one, and the delays of a call that gave up
\* total BACKOFF_FACTOR * (2^MAX_RETRIES - 1), which is 1500 milliseconds.
BackoffDoubles == 
    /\ \A k \in 1..Len(rpc.slept) : rpc.slept[k] = BACKOFF_FACTOR * (2 ^ (k - 1))
    /\ \A k \in 2..Len(rpc.slept) : rpc.slept[k] = 2 * rpc.slept[k - 1]
    /\ Len(rpc.slept) = IF rpc.outcome = "ConnectionError" THEN rpc.failures - 1 ELSE rpc.failures
    /\ rpc.outcome = "ConnectionError" =>
           /\ SumSeq(rpc.slept) = BACKOFF_FACTOR * ((2 ^ MAX_RETRIES) - 1)
           /\ SumSeq(rpc.slept) = 1500

\* A call gave up after sleeping twice, the second delay longer than the first.
SleptTwiceThenGaveUp == 
    rpc.outcome = "ConnectionError" /\ Len(rpc.slept) = 2 /\ rpc.slept[2] > rpc.slept[1]

\* C32: an attempt to which the server sent a whole response, in whatever
\* fragments its length prefix and its body arrive, ends the call with that
\* response and counts as no failure.
FragmentsTolerated == 
    [][\A ev \in WholeResponses, response \in Responses :
        RpcAttempt(ev, response) =>
            /\ rpc'.pc = "done"
            /\ rpc'.received = response
            /\ rpc'.failures = rpc.failures]_vars

\* C33: a call that ended with a result or with RPCError took it from a response
\* whose id is the id of the request the call sent.
CorrelatedById == 
    rpc.outcome \in {"result", "RPCError"} => rpc.received.id = rpc.id_counter

\* C34: every connection of a call carried at most one request frame and at most
\* one response frame and is closed once its attempt has ended; the response the
\* call took was read from the connection of the attempt that sent the request,
\* the last one; every attempt's frame is the call's own, the same bytes under
\* the same id.
OneExchangePerConnection == 
    /\ Len(rpc.conns) = rpc.connects
    /\ \A i \in 1..Len(rpc.conns) :
           /\ rpc.conns[i].requests <= 1
           /\ rpc.conns[i].responses <= rpc.conns[i].requests
           /\ rpc.conns[i].closed
           /\ rpc.conns[i].id = rpc.id_counter
           /\ rpc.conns[i].size = rpc.size
    /\ rpc.outcome \in {"result", "RPCError"} =>
           /\ rpc.conns # <<>>
           /\ rpc.conns[Len(rpc.conns)].requests = 1
           /\ rpc.conns[Len(rpc.conns)].responses = 1

\* The second call was answered on its third connection, after two that sent
\* the frame and got nothing back.
AnsweredOnThirdConnection == 
    /\ rpc.id_counter = 2
    /\ rpc.outcome = "result"
    /\ Len(rpc.conns) = 3
    /\ \A i \in 1..2 : rpc.conns[i].requests = 1 /\ rpc.conns[i].responses = 0

\* C35: a call that ended in failure ended with the payload error, with
\* ConnectionError or with RPCError.
FailuresNormalised == 
    rpc.pc = "done" => rpc.outcome \in {"result", "ValueError", "ConnectionError", "RPCError"}

\* C36: the attempt that received a whole response is the last of its call and
\* no delay follows it; a call past the size check makes between 1 and
\* MAX_RETRIES + 1 attempts; every attempt before the last failed on its
\* connection and was followed by one delay.
StopsAtFirstResponse == 
    /\ rpc.connects <= MAX_RETRIES + 1
    /\ (rpc.pc = "done" /\ rpc.outcome # "ValueError") => rpc.connects >= 1
    /\ \A i \in 1..Len(rpc.conns) :
           rpc.conns[i].responses = 1 =>
               (i = Len(rpc.conns) /\ rpc.pc = "done" /\ Len(rpc.slept) = i - 1)
    /\ \A i \in 1..(Len(rpc.conns) - 1) : rpc.conns[i].responses = 0
    /\ rpc.pc = "sending" => Len(rpc.slept) = Len(rpc.conns)

\* A call was answered on its second attempt, after one delay.
AnsweredOnSecondAttempt == 
    /\ rpc.outcome \in {"result", "RPCError"}
    /\ rpc.connects = 2
    /\ Len(rpc.slept) = 1

\* --------------------------------------------- claims on the Loop Controller
\* C16: the executor is invoked at most max_retries + 1 times; a loop that ended
\* in Failed with no executor fault made exactly max_retries + 1 invocations, each
\* judged incomplete; a loop that ended in Done made exactly as many invocations
\* as results it got, the last being the first one judged complete.
LoopInvocationsBounded == 
    /\ ctl.invocations <= ctl.max_retries + 1
    /\ (ctl.state = "Failed" /\ ~ctl.faulted) =>
           (ctl.invocations = ctl.max_retries + 1 /\ Len(ctl.context) = ctl.invocations)
    /\ ctl.state = "Done" => (ctl.invocations = Len(ctl.context) /\ ~ctl.faulted)
    /\ ctl.state \in {"Done", "Failed"} => ctl.remaining = ctl.max_retries - (ctl.invocations - 1)

\* A loop with a positive budget failed after every result was judged incomplete.
LoopExhausted == ctl.state = "Failed" /\ ~ctl.faulted /\ ctl.max_retries = MaxBudget /\ ctl.invocations = MaxBudget + 1

\* C17: an executor-level fault on any attempt leaves the loop in Failed with no
\* invocation after the faulty one, whatever budget remains; the budget is spent
\* by incomplete results only.
LoopFaultFailsAtOnce == 
    /\ ctl.faulted => (ctl.state = "Failed" /\ ctl.invocations = Len(ctl.context) + 1)
    /\ ctl.state \notin {"Idle", "Planning"} => ctl.max_retries - ctl.remaining = ctl.invocations - 1
    /\ ctl.state \in {"Auditing", "Retrying"} => Len(ctl.context) = ctl.invocations

\* A loop failed on an executor fault while budget remained.
LoopFaultedWithBudget == ctl.faulted /\ ctl.state = "Failed" /\ ctl.remaining > 0 /\ ctl.invocations > 1

\* ------------------------------------------------ claims on the executors
\* C18: when CopilotExecutor.run has returned or raised, the client it started
\* is no longer running and the session it created is no longer open.
RuntimeTornDown == 
    rt.pc = "done" => (rt.client # "started" /\ rt.session # "open")

\* The ordinary backend failures: the session cannot be started, the backend
\* does not answer in time, the command exits with a non-zero code.
OrdinaryFailures == {"unreachable", "timeout", "nonzero_exit"}

\* C19: when the executor of a single run met an ordinary backend failure, its
\* run did not raise: the task holds an ExecResult with ok false and a redacted
\* diagnostic.
BackendFailureReturned == 
    \A t \in 1..Len(tasks) :
        (tasks[t].kind = "run" /\ tasks[t].event \in OrdinaryFailures)
            => /\ tasks[t].fault # "executor"
               /\ tasks[t].pc = "write_result"
                    => (tasks[t].ok = "false" /\ tasks[t].output = RedactSecrets(tasks[t].output))

\* ------------------------------------------------ claims on the SSH connector
\* C20: connector.create_session for a target that is_target_allowed refuses
\* (every target under an empty allowlist) returns no session and an error and
\* leaves the session table and the sessions as they were; exec_command on a
\* session whose target is refused raises TargetNotAllowedError and returns no
\* result.
BlockedTargetRefused == 
    [][/\ \A target \in Targets :
            (SshCreateSession(target) /\ ~is_target_allowed(target, ssh.allowlist))
                => /\ ssh'.ret.session = None
                   /\ ssh'.ret.error # "none"
                   /\ ssh'.table = ssh.table
                   /\ ssh'.objects = ssh.objects
       /\ \A sid \in SessionIds :
            (SshExecCommand(sid) /\ ~is_target_allowed(ssh.objects[sid].target, ssh.allowlist))
                => /\ ssh'.ret.raised = "TargetNotAllowedError"
                   /\ ssh'.ret.result = "none"]_vars

\* create_session was refused for a target while the table held a session.
BlockedWithSessions == 
    /\ ssh.ret.op = "create_session"
    /\ ssh.ret.error = "not_in_allowlist"
    /\ ssh.allowlist # {}
    /\ ssh.table # {}

\* C21: get_session returns no session for a session that is not active (one
\* that close_session has closed), and an exec request on such a session
\* neither runs a command nor records one.
ClosedSessionUnusable == 
    [][\A sid \in SessionIds :
        (sid \in 1..Len(ssh.objects) /\ ~ssh.objects[sid].is_active)
            => /\ SshGetSession(sid) => ssh'.ret.session = None
               /\ SshExecRoute(sid)
                    => /\ ssh'.ret.result = "none"
                       /\ ssh'.objects[sid].commands_executed = ssh.objects[sid].commands_executed]_vars

\* ------------------------------------------------------- claims on the Pipe
\* C22: while a cached model list is younger than 300 seconds _fetch_models
\* makes no request and returns the cached list; otherwise it makes exactly one
\* request, and when that request fails or answers with a non-200 or a non-list
\* it returns COPILOT_MODELS and leaves the cache as it was.
ModelsCached == 
    [][\A answer \in Answers :
        PipeFetchModels(answer)
            => IF pipe.models_cache.cached /\ (pipe.now - pipe.models_cache_time) < MODELS_CACHE_SECONDS
               THEN /\ pipe'.ret.requests = 0
                    /\ pipe'.ret.models = pipe.models_cache.models
               ELSE /\ pipe'.ret.requests = 1
                    /\ (answer.status # "200" \/ answer.json # "list")
                            => /\ pipe'.ret.models = COPILOT_MODELS
                               /\ pipe'.models_cache = pipe.models_cache
                               /\ pipe'.models_cache_time = pipe.models_cache_time]_vars

\* ------------------------------------------- claims on the background task
\* C23: a background task writes a terminal status to the run's metadata at
\* most once, and a task that has ended has written one.
TerminalWrittenOnce == 
    \A t \in 1..Len(tasks) :
        /\ tasks[t].terminal <= 1
        /\ tasks[t].pc = "done" => tasks[t].terminal = 1

\* C24: a run's identifier is in the active-task registry, bound to its task,
\* from the return of submit until the task ends, and is not in it once the
\* task has ended.
RegistryTracksTasks == 
    \A t \in 1..Len(tasks) :
        IF tasks[t].pc = "done" THEN bg_tasks[tasks[t].run] = 0 ELSE bg_tasks[tasks[t].run] = t

\* C25: no two background tasks are scheduled for one run identifier, and a
\* submission leaves the record of every existing run as it was.
OneTaskPerRun == 
    [][/\ \A t, u \in 1..Len(tasks') : t # u => tasks'[t].run # tasks'[u].run
       /\ Len(tasks') > Len(tasks) => \A r \in RunIds : store[r].exists => store'[r] = store[r]]_vars

\* C26: every step of a run's background task leaves the directory of every
\* other run as it is: its metadata, result, error and transcript writes land
\* in its own directory.
WritesOwnDir == 
    [][\A t \in TaskIds :
        TaskStep(t) => \A r \in RunIds : r # tasks[t].run => store'[r] = store[r]]_vars

\* A task has written its result while another run, submitted after it, has
\* a directory and a task of its own that has not ended.
WroteBesideOther == 
    \E t, u \in 1..Len(tasks) :
        /\ t < u
        /\ store[tasks[t].run].result # "NoFile"
        /\ StatusOf(store[tasks[t].run]) = "completed"
        /\ tasks[u].pc \in {"awaiting", "write_result"}

\* C27: once a run's status is cancelled, its background task does not invoke
\* the executor (again) and the status stays cancelled, whatever the task does
\* with the result of a call that was in flight.
CancelledStaysCancelled == 
    [][\A t \in 1..Len(tasks) :
        StatusOf(store[tasks[t].run]) = "cancelled"
            => /\ tasks'[t].calls = tasks[t].calls
               /\ StatusOf(store'[tasks[t].run]) = "cancelled"]_vars

TranscriptAppendOnly == 
    [][\A r \in RunIds :
        LET old == store[r].transcript.lines
            new == store'[r].transcript.lines
        IN  /\ IsPrefix(old, new)
            /\ Len(new) <= Len(old) + 1
            /\ \A i, j \in 1..Len(new) : i < j => new[i][2] < new[j][2]]_vars

\* A transcript holds two events.
TwoEventsWritten == 
    \E r \in RunIds : Len(store[r].transcript.lines) = 2

\* C30: a write_run_meta keeps every key it does not name, so that the kind and
\* the executor written at submission are what a readable run.json holds after
\* every later write.
SubmissionKeysSurvive == 
    \A t \in 1..Len(tasks) :
        store[tasks[t].run].meta.file = "json"
            => /\ store[tasks[t].run].meta.kv["kind"] = tasks[t].kind
               /\ store[tasks[t].run].meta.kv["executor"] = tasks[t].executor

\* C37: the payload of a run matches the status a reader finds: a run whose
\* status is completed has its result file and no error file, and a run whose
\* status is failed has its error file.
PayloadMatchesStatus == 
    \A r \in RunIds :
        /\ StatusOf(store[r]) = "completed" =>
               (store[r].result # "NoFile" /\ store[r].error = "NoFile")
        /\ StatusOf(store[r]) = "failed" => store[r].error # "NoFile"

\* The live sessions of the manager: in the table, active and not expired.
Live(c) == 
    {sid \in c.table : c.objects[sid].is_active /\ ~is_expired(c.objects[sid], c.now)}

\* C38: the session manager never holds more than SSH_MAX_SESSIONS sessions; a
\* create_session made while SSH_MAX_SESSIONS live sessions exist returns the
\* error and adds no session; one made while fewer live sessions exist, however
\* many closed or expired ones the table still holds, returns a session.
SessionLimitHolds == 
    [][/\ Cardinality(ssh'.table) <= SSH_MAX_SESSIONS
       /\ SshManagerCreateUpTo(<<"server">>, LimitSessions) =>
              IF Cardinality(Live(ssh)) >= SSH_MAX_SESSIONS
              THEN /\ ssh'.ret.error = "max_sessions"
                   /\ ssh'.ret.session = None
                   /\ ssh'.objects = ssh.objects
                   /\ ssh'.table \subseteq ssh.table
              ELSE /\ ssh'.ret.error = "none"
                   /\ ssh'.ret.session \in ssh'.table \ ssh.table]_vars

\* A create_session was refused with SSH_MAX_SESSIONS sessions in the table.
RefusedAtLimit == 
    /\ ssh.ret.op = "create_session"
    /\ ssh.ret.error = "max_sessions"
    /\ Cardinality(ssh.table) = SSH_MAX_SESSIONS

\* target with the default port when it names none.
WithPort(target) == 
    IF HasColon(target) THEN target ELSE target \o <<":", "22">>

\* C39: create_session admits a target exactly when the allowlist holds an entry
\* for the same host and port, a host without a port standing for port 22 in
\* the target as in the entry.
HostEntryMeansDefaultPort == 
    [][\A target \in Targets :
        SshCreateSession(target) =>
            ((ssh'.ret.error # "not_in_allowlist")
                <=> (WithPort(target) \in {WithPort(entry) : entry \in ssh.allowlist}))]_vars

\* C40: a session that is expired is handed out neither by get_session nor by
\* list_sessions nor to the exec route, and after any step it is still expired,
\* still inactive if it was, and not back in the table once it has left it.
ExpiredStaysOut == 
    [][\A sid \in 1..Len(ssh.objects) :
        is_expired(ssh.objects[sid], ssh.now) =>
            /\ is_expired(ssh'.objects[sid], ssh'.now)
            /\ ~ssh.objects[sid].is_active => ~ssh'.objects[sid].is_active
            /\ sid \notin ssh.table => sid \notin ssh'.table
            /\ SshGetSession(sid) => ssh'.ret.session = None
            /\ SshExecRoute(sid) => ssh'.ret.session = None
            /\ SshListSessions => sid \notin ssh'.ret.listed]_vars

\* get_session was asked for an expired session that the table still holds.
ExpiredLookedUp == 
    /\ ssh.ret.op = "get_session"
    /\ ssh.ret.sid \in ssh.table
    /\ is_expired(ssh.objects[ssh.ret.sid], ssh.now)
    /\ ssh.ret.session = None

====
